---- MODULE Spec2Model ----
(***************************************************************************)
(* Round controller and scorer of the GeoGuesser clone (src/app.js).       *)
(*                                                                         *)
(* The module-level variables of app.js are the state.  Every event        *)
(* handler (Start click, dataset load settling, map click, Next click) is  *)
(* one action; the functions the handlers call are operators on a record   *)
(* of the session state, composed the way the code calls them.             *)
(*                                                                         *)
(* startGame is asynchronous: StartClick runs it up to `await              *)
(* loadDataset()`, LoadResolved and LoadRejected run the rest when the     *)
(* fetch settles.  pending counts the calls suspended in between.          *)
(*                                                                         *)
(* Coordinates are whole degrees on the 90-degree grid, distances are in   *)
(* metres (fixed point for the code's floating-point kilometres).          *)
(* op, path, leftover, gameN, played, shown, guesses and awarded record    *)
(* what the last handler did and how far the game got; no handler reads    *)
(* them.                                                                   *)
(***************************************************************************)
EXTENDS Integers, Sequences, FiniteSets, TLC

(* ---------------------------------------------------------------------- *)
(* Bounds of the model                                                     *)
(* ---------------------------------------------------------------------- *)

\* largest number of records images.json delivers
MaxN == 5

\* largest number of startGame calls suspended at their await at one time
MaxPending == 2

\* largest value drawn for Math.floor(Math.random()*(i+1)) in shuffle
MaxDraw == 1

\* computeScore on its own: the whole kilometres 0..MaxKm, and every eighth
\* of a kilometre up to MaxFine eighths
MaxKm == 40000
MaxFine == 64

\* shuffle on its own: arrays of up to MaxLen records, each one of MaxRecord
\* different records (so that an array can hold a record twice)
MaxLen == 4
MaxRecord == 2

(* ---------------------------------------------------------------------- *)
(* Program constants                                                       *)
(* ---------------------------------------------------------------------- *)

roundsTotal == 5

\* computeScore: const max, const maxDist (km)
max == 5000
maxDist == 20000

\* haversine: const R (km)
R == 6371

(* ---------------------------------------------------------------------- *)
(* State                                                                   *)
(* ---------------------------------------------------------------------- *)

VARIABLES
    dataset,        \* the array stored in images.json (never written)
    images,         \* let images: sequence of location records (record ids)
    currentIndex,   \* let currentIndex (0-based index into images)
    roundNum,       \* let roundNum
    totalScore,     \* let totalScore
    hasGuessed,     \* let hasGuessed
    startDisabled,  \* startBtn.disabled
    nextDisabled,   \* nextBtn.disabled
    sceneImage,     \* sceneImage.src: id of the record shown, 0 for ''
    pending,        \* number of startGame calls suspended in loadDataset
    op,             \* the handler that ran last
    alertMsg,       \* the alert the last handler raised, "" if none
    threw,          \* the last handler ended in an uncaught exception
    path,           \* the exit the last handler took through its code
    leftover,       \* the last handler started a game over a finished one
                    \* that had left hasGuessed = true and totalScore > 0
    gameN,          \* images.length when the last game was started
    played,         \* rounds presented since the last game was started
    shown,          \* the records presented in those rounds
    guesses,        \* guesses scored since the last game was started
    awarded,        \* sum of the points of those guesses
    call            \* a call of shuffle, haversine or computeScore on its
                    \* own: its arguments and result

vars == <<dataset, images, currentIndex, roundNum, totalScore, hasGuessed,
          startDisabled, nextDisabled, sceneImage, pending, op, alertMsg,
          threw, path, leftover, gameN, played, shown, guesses,
          awarded, call>>

\* the state of the game, which a call of a function on its own leaves alone
gameVars == <<dataset, images, currentIndex, roundNum, totalScore, hasGuessed,
              startDisabled, nextDisabled, sceneImage, pending, op, alertMsg,
              threw, path, leftover, gameN, played, shown, guesses,
              awarded>>

\* the session state the functions of app.js read and write
Session ==
    [images |-> images, currentIndex |-> currentIndex, roundNum |-> roundNum,
     totalScore |-> totalScore, hasGuessed |-> hasGuessed,
     startDisabled |-> startDisabled, nextDisabled |-> nextDisabled,
     sceneImage |-> sceneImage, alertMsg |-> "", threw |-> FALSE,
     path |-> "suspended"]

\* the session state after a handler is the record s the handler returns
Becomes(s) ==
    /\ images' = s.images
    /\ currentIndex' = s.currentIndex
    /\ roundNum' = s.roundNum
    /\ totalScore' = s.totalScore
    /\ hasGuessed' = s.hasGuessed
    /\ startDisabled' = s.startDisabled
    /\ nextDisabled' = s.nextDisabled
    /\ sceneImage' = s.sceneImage
    /\ alertMsg' = s.alertMsg
    /\ threw' = s.threw
    /\ path' = s.path

(* ---------------------------------------------------------------------- *)
(* Data: location records and coordinates                                  *)
(* ---------------------------------------------------------------------- *)

\* an images.json of n records; a record is named by its place in the file
Dataset(n) == [k \in 1..n |-> k]

Datasets == {Dataset(n) : n \in 0..MaxN}

\* actual.lat, actual.lng of a record: odd records at (0, 0), even records
\* at the antipode (0, 180)
LocOf(id) ==
    IF id % 2 = 1 THEN [lat |-> 0, lng |-> 0] ELSE [lat |-> 0, lng |-> 180]

\* e.latlng of the map clicks
Coords == {[lat |-> 0, lng |-> 0], [lat |-> 0, lng |-> 180]}

(* ---------------------------------------------------------------------- *)
(* shuffle (Fisher-Yates); rnd[i] is Math.floor(Math.random()*(i+1))       *)
(* ---------------------------------------------------------------------- *)

\* the draws of one shuffle of n elements: rnd[i] \in 0..i for i = n-1 .. 1,
\* of which the model takes those up to MaxDraw
RandomChoices ==
    [n \in 0..(MaxN + 1) |->
        {rnd \in [1..(n - 1) -> 0..MaxDraw] : \A i \in 1..(n - 1) : rnd[i] <= i}]

\* every sequence of draws of one shuffle of n elements
AllDraws(n) ==
    {rnd \in [1..(n - 1) -> 0..(n - 1)] : \A i \in 1..(n - 1) : rnd[i] <= i}

\* `arr[i] = arr[j]` alone, the old arr[i] lost
Swap_overwrite(arr, i, j) == [arr EXCEPT ![i + 1] = arr[j + 1]]

\* [arr[i], arr[j]] = [arr[j], arr[i]] on 0-based indexes
Swap(arr, i, j) ==
    [arr EXCEPT ![i + 1] = arr[j + 1], ![j + 1] = arr[i + 1]]

RECURSIVE ShuffleLoop(_, _, _)
ShuffleLoop(arr, i, rnd) ==
    IF i > 0 THEN ShuffleLoop(Swap(arr, i, rnd[i]), i - 1, rnd) ELSE arr

shuffle(arr, rnd) == ShuffleLoop(arr, Len(arr) - 1, rnd)

(* ---------------------------------------------------------------------- *)
(* haversine, on the 90-degree grid, result in metres                      *)
(* ---------------------------------------------------------------------- *)

\* 2 * sin(toRad(d)/2)^2 for d a multiple of 90 degrees
TwoSinSqHalf(d) ==
    CASE d % 360 = 0   -> 0
      [] d % 360 = 180 -> 2
      [] OTHER         -> 1

\* cos(toRad(lat)) for lat in {-90, 0, 90}
CosDeg(lat) == IF lat = 0 THEN 1 ELSE 0

\* 2 * Math.atan2(sqrt(a), sqrt(1-a)) in units of 1e-5 rad, for 2a in 0..2
TwoAtan2(a2) ==
    CASE a2 = 0 -> 0
      [] a2 = 1 -> 157080
      [] OTHER  -> 314159

\* haversine with `toRad(lat2 + lat1)` for `toRad(lat2 - lat1)`
haversine_sumLat(lat1, lon1, lat2, lon2) ==
    LET dLat == lat2 + lat1
        dLon == lon2 - lon1
        a2 == TwoSinSqHalf(dLat) + CosDeg(lat1) * CosDeg(lat2) * TwoSinSqHalf(dLon)
        c == TwoAtan2(a2)
    IN  (R * c) \div 100

haversine(lat1, lon1, lat2, lon2) ==
    LET dLat == lat2 - lat1
        dLon == lon2 - lon1
        a2 == TwoSinSqHalf(dLat) + CosDeg(lat1) * CosDeg(lat2) * TwoSinSqHalf(dLon)
        c == TwoAtan2(a2)
    IN  (R * c) \div 100

(* ---------------------------------------------------------------------- *)
(* Number arithmetic. A JavaScript Number is an IEEE 754 double: every     *)
(* /, - and * returns its exact result rounded to 53 significant bits,     *)
(* ties to the even neighbour. A natural number of any size is a sequence  *)
(* of limbs, least significant first; a positive double is [m, e] with     *)
(* value m * 2^e and m of exactly 53 bits, zero is [m |-> <<>>, e |-> 0].  *)
(* The values of computeScore lie between 2^-20 and 2^13, so subnormals,   *)
(* infinities and signs do not occur.                                      *)
(* ---------------------------------------------------------------------- *)

Pow2(n) == 2 ^ n

\* the limb base; a limb times maxDist stays below 2^31
Limb == Pow2(13)

Digit(n, i) == IF i \in DOMAIN n THEN n[i] ELSE 0

Zeros(k) == [i \in 1..k |-> 0]

RECURSIVE Trim(_)
Trim(n) ==
    IF n = <<>> THEN n
    ELSE IF n[Len(n)] = 0 THEN Trim(SubSeq(n, 1, Len(n) - 1))
    ELSE n

RECURSIVE FromNat(_)
FromNat(x) == IF x = 0 THEN <<>> ELSE <<x % Limb>> \o FromNat(x \div Limb)

RECURSIVE ToNat(_)
ToNat(n) == IF n = <<>> THEN 0 ELSE n[1] + Limb * ToNat(Tail(n))

RECURSIVE BitLenSmall(_)
BitLenSmall(x) == IF x = 0 THEN 0 ELSE 1 + BitLenSmall(x \div 2)

\* number of significant bits of the trimmed natural n
BitLen(n) ==
    IF n = <<>> THEN 0 ELSE 13 * (Len(n) - 1) + BitLenSmall(n[Len(n)])

RECURSIVE AddFrom(_, _, _, _)
AddFrom(a, b, i, carry) ==
    IF i > Len(a) /\ i > Len(b)
    THEN IF carry = 0 THEN <<>> ELSE <<carry>>
    ELSE LET t == Digit(a, i) + Digit(b, i) + carry
         IN  <<t % Limb>> \o AddFrom(a, b, i + 1, t \div Limb)

Add(a, b) == AddFrom(a, b, 1, 0)

RECURSIVE SubFrom(_, _, _, _)
SubFrom(a, b, i, borrow) ==
    IF i > Len(a) THEN <<>>
    ELSE LET t == Digit(a, i) - Digit(b, i) - borrow
         IN  <<t % Limb>> \o SubFrom(a, b, i + 1, IF t < 0 THEN 1 ELSE 0)

\* a - b for a >= b
Sub(a, b) == Trim(SubFrom(a, b, 1, 0))

RECURSIVE MulFrom(_, _, _, _)
MulFrom(n, k, i, carry) ==
    IF i > Len(n)
    THEN IF carry = 0 THEN <<>> ELSE <<carry>>
    ELSE LET t == n[i] * k + carry
         IN  <<t % Limb>> \o MulFrom(n, k, i + 1, t \div Limb)

\* n * k for a small k (k * Limb below 2^31)
MulSmall(n, k) == Trim(MulFrom(n, k, 1, 0))

RECURSIVE DivFrom(_, _, _, _)
DivFrom(n, k, i, rem) ==
    IF i = 0 THEN [q |-> <<>>, r |-> rem]
    ELSE LET t == rem * Limb + n[i]
             low == DivFrom(n, k, i - 1, t % k)
         IN  [q |-> Append(low.q, t \div k), r |-> low.r]

\* quotient and remainder of n by a small k (k * Limb below 2^31)
DivSmall(n, k) ==
    LET d == DivFrom(n, k, Len(n), 0) IN [q |-> Trim(d.q), r |-> d.r]

\* 2^s
Pow2Big(s) == Append(Zeros(s \div 13), Pow2(s % 13))

\* n * 2^s
ShiftLeft(n, s) ==
    IF n = <<>> THEN n ELSE MulSmall(Zeros(s \div 13) \o n, Pow2(s % 13))

\* floor(n / 2^s), and whether bits were shifted out
ShiftRight(n, s) ==
    LET k == s \div 13
        d == DivSmall(SubSeq(n, k + 1, Len(n)), Pow2(s % 13))
    IN  [q |-> d.q,
         inexact |-> d.r # 0 \/ \E i \in 1..k : Digit(n, i) # 0]

Zero == [m |-> <<>>, e |-> 0]
One == [m |-> Pow2Big(52), e |-> 0 - 52]

\* the double nearest to (n + f) * 2^e, for a fraction f in [0, 1) that is
\* positive iff sticky; ties go to the even mantissa
RoundToDouble(n, e, sticky) ==
    LET len == BitLen(n)
    IN  IF len = 0 THEN Zero
        ELSE IF len <= 53 THEN [m |-> ShiftLeft(n, 53 - len), e |-> e - (53 - len)]
        ELSE LET sh == len - 53
                 t == ShiftRight(n, sh - 1)
                 guard == Digit(t.q, 1) % 2
                 q == ShiftRight(t.q, 1).q
                 rest == t.inexact \/ sticky
                 up == guard = 1 /\ (rest \/ Digit(q, 1) % 2 = 1)
                 r == IF up THEN Add(q, <<1>>) ELSE q
             IN  IF BitLen(r) > 53
                 THEN [m |-> ShiftRight(r, 1).q, e |-> e + sh + 1]
                 ELSE [m |-> r, e |-> e + sh]

\* x * 2^xe / k for naturals x > 0 and k > 0 (k * Limb below 2^31): the
\* quotient is developed to at least 54 significant bits and then rounded
Divide(x, xe, k) ==
    LET d == DivSmall(Zeros(7) \o FromNat(x), k)
    IN  RoundToDouble(d.q, xe - 7 * 13, d.r # 0)

\* a >= 1 for a double a >= 0
AtLeastOne(a) == a.m # <<>> /\ 53 + a.e >= 1

\* Math.min(a, 1) for a double a >= 0
MinOne(a) == IF AtLeastOne(a) THEN One ELSE a

\* 1 - a for a double 0 < a <= 1
OneMinus(a) == RoundToDouble(Sub(Pow2Big(0 - a.e), a.m), a.e, FALSE)

\* k * a for a small natural k and a double a >= 0
Times(k, a) == RoundToDouble(MulSmall(a.m, k), a.e, FALSE)

\* Math.max(0, a) for a double a >= 0
MaxZero(a) == a

\* Math.round(a) for a double 0 <= a < 2^13: floor(a + 1/2), halves go up
MathRound(a) ==
    IF a.m = <<>> THEN 0
    ELSE ToNat(ShiftRight(Add(a.m, Pow2Big(0 - a.e - 1)), 0 - a.e).q)

(* ---------------------------------------------------------------------- *)
(* computeScore, the distance given in eighths of a kilometre (every such  *)
(* distance is a double)                                                   *)
(* ---------------------------------------------------------------------- *)

\* computeScore with `max * Math.min(distanceKm / maxDist, 1)`, the share of
\* maxDist covered rather than the share left
computeScore_shareCovered(distance8) ==
    IF distance8 <= 8 THEN max
    ELSE LET ratio == Divide(distance8, 0 - 3, maxDist)
         IN  MathRound(MaxZero(Times(max, MinOne(ratio))))

computeScore(distance8) ==
    IF distance8 <= 8 THEN max
    ELSE LET ratio == Divide(distance8, 0 - 3, maxDist)
         IN  MathRound(MaxZero(Times(max, OneMinus(MinOne(ratio)))))

(* ---------------------------------------------------------------------- *)
(* The functions of the round controller, on a session record s            *)
(* ---------------------------------------------------------------------- *)

\* showImage(imageObj): sceneImage.src = imageObj.url
showImage(s, imageObj) == [s EXCEPT !.sceneImage = imageObj]

resetRoundState(s) == [s EXCEPT !.hasGuessed = FALSE, !.nextDisabled = TRUE]

\* endGame without its `nextBtn.disabled = true`
endGame_nextLeftEnabled(s) ==
    [s EXCEPT !.alertMsg = "Game over",
              !.startDisabled = FALSE,
              !.roundNum = 0,
              !.sceneImage = 0]

endGame(s) ==
    [s EXCEPT !.alertMsg = "Game over",
              !.startDisabled = FALSE,
              !.nextDisabled = TRUE,
              !.roundNum = 0,
              !.sceneImage = 0]

\* proceedNextRound with `currentIndex = 0` for `currentIndex = roundNum - 1`
proceedNextRound_firstIndex(s) ==
    LET s1 == [s EXCEPT !.roundNum = @ + 1]
    IN  IF s1.roundNum > roundsTotal \/ s1.roundNum > Len(s1.images)
        THEN endGame([s1 EXCEPT !.path = "proceedNextRound:endGame"])
        ELSE LET s2 == [s1 EXCEPT !.currentIndex = 0]
                 s3 == showImage(s2, s2.images[s2.currentIndex + 1])
             IN  resetRoundState([s3 EXCEPT !.path = "proceedNextRound:round"])

\* proceedNextRound with roundNum >= images.length for roundNum > images.length
proceedNextRound_offByOne(s) ==
    LET s1 == [s EXCEPT !.roundNum = @ + 1]
    IN  IF s1.roundNum > roundsTotal \/ s1.roundNum >= Len(s1.images)
        THEN endGame([s1 EXCEPT !.path = "proceedNextRound:endGame"])
        ELSE LET s2 == [s1 EXCEPT !.currentIndex = s1.roundNum - 1]
                 s3 == showImage(s2, s2.images[s2.currentIndex + 1])
             IN  resetRoundState([s3 EXCEPT !.path = "proceedNextRound:round"])

proceedNextRound(s) ==
    LET s1 == [s EXCEPT !.roundNum = @ + 1]
    IN  IF s1.roundNum > roundsTotal \/ s1.roundNum > Len(s1.images)
        THEN endGame([s1 EXCEPT !.path = "proceedNextRound:endGame"])
        ELSE LET s2 == [s1 EXCEPT !.currentIndex = s1.roundNum - 1]
                 s3 == showImage(s2, s2.images[s2.currentIndex + 1])
             IN  resetRoundState([s3 EXCEPT !.path = "proceedNextRound:round"])

\* the points of a guess at latlng in the round of s; the distance goes to
\* computeScore on its grid of eighths of a kilometre (125 m)
Points(s, latlng) ==
    LET actual == LocOf(s.images[s.currentIndex + 1])
        distM == haversine(latlng.lat, latlng.lng, actual.lat, actual.lng)
    IN  computeScore(distM \div 125)

\* onMapClick without its `if (hasGuessed) return`
onMapClick_noGuessedCheck(s, latlng) ==
    IF s.roundNum = 0 THEN [s EXCEPT !.path = "onMapClick:notStarted"]
    ELSE IF s.currentIndex + 1 \notin DOMAIN s.images
         THEN [s EXCEPT !.threw = TRUE, !.path = "onMapClick:TypeError"]
    ELSE [s EXCEPT !.totalScore = @ + Points(s, latlng),
                   !.hasGuessed = TRUE,
                   !.nextDisabled = FALSE,
                   !.path = "onMapClick:scored"]

\* onMapClick without its `if (roundNum === 0) return`
onMapClick_noStartedCheck(s, latlng) ==
    IF s.hasGuessed THEN [s EXCEPT !.path = "onMapClick:hasGuessed"]
    ELSE IF s.currentIndex + 1 \notin DOMAIN s.images
         THEN [s EXCEPT !.threw = TRUE, !.path = "onMapClick:TypeError"]
    ELSE [s EXCEPT !.totalScore = @ + Points(s, latlng),
                   !.hasGuessed = TRUE,
                   !.nextDisabled = FALSE,
                   !.path = "onMapClick:scored"]

\* onMapClick with `totalScore = points` for `totalScore += points`
onMapClick_assignsPoints(s, latlng) ==
    IF s.roundNum = 0 THEN [s EXCEPT !.path = "onMapClick:notStarted"]
    ELSE IF s.hasGuessed THEN [s EXCEPT !.path = "onMapClick:hasGuessed"]
    ELSE IF s.currentIndex + 1 \notin DOMAIN s.images
         THEN [s EXCEPT !.threw = TRUE, !.path = "onMapClick:TypeError"]
    ELSE [s EXCEPT !.totalScore = Points(s, latlng),
                   !.hasGuessed = TRUE,
                   !.nextDisabled = FALSE,
                   !.path = "onMapClick:scored"]

\* map.on('click', onMapClick), e.latlng = latlng
onMapClick(s, latlng) ==
    IF s.roundNum = 0 THEN [s EXCEPT !.path = "onMapClick:notStarted"]
    ELSE IF s.hasGuessed THEN [s EXCEPT !.path = "onMapClick:hasGuessed"]
    ELSE IF s.currentIndex + 1 \notin DOMAIN s.images
         \* actual is undefined: actual.lat throws a TypeError
         THEN [s EXCEPT !.threw = TRUE, !.path = "onMapClick:TypeError"]
    ELSE LET points == Points(s, latlng)
         IN  [s EXCEPT !.totalScore = @ + points,
                       !.hasGuessed = TRUE,
                       !.nextDisabled = FALSE,
                       !.path = "onMapClick:scored"]

\* the listener of nextBtn
nextClick(s) ==
    IF ~s.hasGuessed THEN [s EXCEPT !.path = "nextClick:notGuessed"]
    ELSE IF s.roundNum >= roundsTotal
         THEN endGame([s EXCEPT !.path = "nextClick:endGame"])
    ELSE proceedNextRound(s)

\* loadDataset after its awaits settle: json is the parsed array, rnd the
\* draws of the shuffle; ok = FALSE when fetch or res.json() rejected
loadDataset(s, ok, json, rnd) ==
    IF ok THEN [s EXCEPT !.images = shuffle(json, rnd)]
    ELSE [s EXCEPT !.images = <<>>]

\* startGame without its `totalScore = 0`
startGame_noScoreReset(s, ok, json, rnd) ==
    LET s1 == loadDataset(s, ok, json, rnd)
    IN  IF Len(s1.images) = 0
        THEN [s1 EXCEPT !.alertMsg = "No images", !.path = "startGame:noImages"]
        ELSE proceedNextRound([s1 EXCEPT !.roundNum = 0,
                                         !.nextDisabled = TRUE,
                                         !.startDisabled = TRUE])

\* startGame without its `if (images.length === 0)` return
startGame_noEmptyCheck(s, ok, json, rnd) ==
    LET s1 == loadDataset(s, ok, json, rnd)
    IN  proceedNextRound([s1 EXCEPT !.roundNum = 0,
                                    !.totalScore = 0,
                                    !.nextDisabled = TRUE,
                                    !.startDisabled = TRUE])

\* startGame from the point where await loadDataset() resumes
startGame(s, ok, json, rnd) ==
    LET s1 == loadDataset(s, ok, json, rnd)
    IN  IF Len(s1.images) = 0
        THEN [s1 EXCEPT !.alertMsg = "No images", !.path = "startGame:noImages"]
        ELSE proceedNextRound([s1 EXCEPT !.roundNum = 0,
                                         !.totalScore = 0,
                                         !.nextDisabled = TRUE,
                                         !.startDisabled = TRUE])

(* ---------------------------------------------------------------------- *)
(* Initial state and events                                                *)
(* ---------------------------------------------------------------------- *)

\* The state when app.js has run.  images.json is any of Datasets and stays
\* the same file; whether the page delivers nextBtn disabled is not set in
\* app.js, so both are initial states.
\* the page after app.js has run, before any event
Constructed ==
    /\ dataset \in Datasets
    /\ images = <<>>
    /\ currentIndex = 0 - 1
    /\ roundNum = 0
    /\ totalScore = 0
    /\ hasGuessed = FALSE
    /\ startDisabled = FALSE
    /\ nextDisabled \in BOOLEAN
    /\ sceneImage = 0
    /\ pending = 0
    /\ op = "init"
    /\ alertMsg = ""
    /\ threw = FALSE
    /\ path = "init"
    /\ leftover = FALSE
    /\ gameN = 0
    /\ played = 0
    /\ shown = {}
    /\ guesses = 0
    /\ awarded = 0

Init ==
    /\ Constructed
    /\ call = [fn |-> "none"]

\* click on the enabled Start button: startGame runs up to its await
StartClick ==
    /\ ~startDisabled
    /\ pending < MaxPending
    /\ pending' = pending + 1
    /\ op' = "startClick"
    /\ Becomes(Session)
    /\ leftover' = FALSE
    /\ UNCHANGED <<dataset, gameN, played, shown, guesses, awarded, call>>

\* a suspended startGame resumes with the parsed dataset
LoadResolved ==
    /\ pending > 0
    /\ \E rnd \in RandomChoices[Len(dataset)] :
          Becomes(startGame(Session, TRUE, dataset, rnd))
    /\ gameN' = IF Len(dataset) > 0 THEN Len(dataset) ELSE gameN
    /\ played' = IF Len(dataset) > 0 THEN 1 ELSE played
    /\ shown' = IF Len(dataset) > 0 THEN {sceneImage'} ELSE shown
    /\ guesses' = IF Len(dataset) > 0 THEN 0 ELSE guesses
    /\ awarded' = IF Len(dataset) > 0 THEN 0 ELSE awarded
    /\ leftover' =
          (Len(dataset) > 0 /\ roundNum = 0 /\ hasGuessed /\ totalScore > 0)
    /\ UNCHANGED <<dataset, call>>
    /\ pending' = pending - 1
    /\ op' = "loadResolved"

\* a suspended startGame resumes after fetch or res.json() rejected
LoadRejected ==
    /\ pending > 0
    /\ Becomes(startGame(Session, FALSE, <<>>, <<>>))
    /\ pending' = pending - 1
    /\ op' = "loadRejected"
    /\ leftover' = FALSE
    /\ UNCHANGED <<dataset, gameN, played, shown, guesses, awarded, call>>

MapClick ==
    /\ \E latlng \in Coords :
          /\ Becomes(onMapClick(Session, latlng))
          /\ IF path' = "onMapClick:scored"
             THEN /\ guesses' = guesses + 1
                  /\ awarded' = awarded + Points(Session, latlng)
             ELSE UNCHANGED <<guesses, awarded>>
    /\ op' = "mapClick"
    /\ leftover' = FALSE
    /\ UNCHANGED <<dataset, pending, gameN, played, shown, call>>

\* click on the enabled Next button
NextClick ==
    /\ ~nextDisabled
    /\ Becomes(nextClick(Session))
    /\ op' = "nextClick"
    /\ leftover' = FALSE
    /\ played' = IF roundNum' > roundNum THEN played + 1 ELSE played
    /\ shown' = IF roundNum' > roundNum THEN shown \cup {sceneImage'} ELSE shown
    /\ UNCHANGED <<dataset, pending, gameN, guesses, awarded, call>>

Next == StartClick \/ LoadResolved \/ LoadRejected \/ MapClick \/ NextClick

Spec == Init /\ [][Next]_vars

\* a map click would be accepted as the guess of the round: onMapClick
\* passes its two returns and finds the record of the round
GuessAwaited ==
    /\ roundNum >= 1
    /\ ~hasGuessed
    /\ currentIndex + 1 \in DOMAIN images

\* a map click that is accepted as the guess of the round
Guess == GuessAwaited /\ MapClick

\* the player keeps guessing and pressing Next while they can, and the event
\* loop resumes every suspended startGame once its fetch has settled.
\* GuessAwaited is ENABLED <<Guess>>_vars, so the first conjunct is
\* WF_vars(Guess) written out.
FairSpec ==
    /\ Spec
    /\ (<>[]GuessAwaited => []<><<Guess>>_vars)
    /\ WF_vars(NextClick)
    /\ WF_vars(LoadResolved \/ LoadRejected)

(* ---------------------------------------------------------------------- *)
(* Properties                                                              *)
(* ---------------------------------------------------------------------- *)

\* the smaller of two integers: a game ends after roundsTotal rounds or
\* after images.length rounds, whichever is fewer
Min(a, b) == IF a <= b THEN a ELSE b

\* endGame ran in the last handler
GameOverShown == alertMsg = "Game over"

\* the last handler was a startGame that found no images
StartFailed == op = "loadRejected" \/ (op = "loadResolved" /\ Len(dataset) = 0)

\* the last handler was a startGame that found images
StartSucceeded == op = "loadResolved" /\ Len(dataset) > 0

\* C1: a game started with N locations presents rounds 1..min(roundsTotal, N),
\* one after the other, and the Next click after the guess of the last of
\* them ends the game: at game over exactly min(roundsTotal, N) rounds have
\* been presented, and roundNum only ever steps to roundNum + 1 or to 0.
C1_ExactlyMinRoundsPlayed ==
    [][ /\ (GameOverShown' => played' = Min(roundsTotal, gameN'))
        /\ (roundNum' # roundNum /\ roundNum' # 0 => roundNum' = roundNum + 1)
      ]_vars

\* C2: a map click in a round that is already guessed leaves totalScore,
\* hasGuessed, roundNum and currentIndex unchanged, whatever its coordinates.
C2_OneGuessPerRound ==
    [][ op' = "mapClick" /\ roundNum >= 1 /\ hasGuessed
        => UNCHANGED <<totalScore, hasGuessed, roundNum, currentIndex>> ]_vars

\* C2 witness: a click arrived in a round that was already guessed
C2_Witness ==
    /\ path = "onMapClick:hasGuessed"
    /\ roundNum >= 1
    /\ totalScore > 0

\* C3: a startGame whose dataset load fails or is empty ends with roundNum
\* still 0, totalScore and hasGuessed unchanged, the Start button still
\* enabled, the failure alerted and nothing thrown.
C3_FailedStartStartsNoRound ==
    [][ StartFailed'
        => /\ roundNum' = 0
           /\ totalScore' = totalScore
           /\ hasGuessed' = hasGuessed
           /\ ~startDisabled'
           /\ alertMsg' = "No images"
           /\ ~threw' ]_vars

\* C4: a map click when no guess is awaited (no game started, game over, or
\* round already guessed) changes none of roundNum, currentIndex, totalScore,
\* hasGuessed, nextBtn.disabled and throws nothing.
C4_ClickIgnoredWhenNoGuessAwaited ==
    [][ op' = "mapClick" /\ (roundNum = 0 \/ hasGuessed)
        => /\ UNCHANGED <<roundNum, currentIndex, totalScore, hasGuessed,
                          nextDisabled>>
           /\ ~threw' ]_vars

\* C4 witness: a click arrived after game over, hasGuessed still true
C4_Witness ==
    /\ path = "onMapClick:notStarted"
    /\ roundNum = 0
    /\ hasGuessed
    /\ played >= 1

\* C5: while a game is active totalScore never decreases in any step, the
\* completion of a pending startGame included, and it is never negative.
C5_ScoreOnlyIncreases ==
    [][ /\ (roundNum >= 1 => totalScore' >= totalScore)
        /\ totalScore' >= 0 ]_vars

\* C6: while a round is active currentIndex = roundNum - 1 and
\* images[currentIndex] is the record shown when the round began.
C6_ActiveLocationFixed ==
    roundNum >= 1
    => /\ currentIndex = roundNum - 1
       /\ currentIndex + 1 \in DOMAIN images
       /\ images[currentIndex + 1] = sceneImage

\* C7: at most one startGame is suspended at any time, and no guess or Next
\* click changes the session state while a startGame is suspended.
C7_NoOverlap ==
    [][ /\ pending' <= 1
        /\ (pending >= 1 /\ op' \in {"mapClick", "nextClick"}
            => UNCHANGED <<images, currentIndex, roundNum, totalScore,
                           hasGuessed>>) ]_vars

\* C8: a startGame that finds images ends with roundNum = 1, totalScore = 0,
\* currentIndex = 0, hasGuessed = false and both buttons disabled, whatever
\* the previous game left behind.
C8_SuccessfulStartState ==
    StartSucceeded
    => /\ roundNum = 1
       /\ totalScore = 0
       /\ currentIndex = 0
       /\ ~hasGuessed
       /\ nextDisabled
       /\ startDisabled

\* C8 witness: a start that reset the hasGuessed = true and non-zero
\* totalScore of a finished game
C8_Witness == StartSucceeded /\ leftover /\ roundNum = 1

\* C9 as stated: a Next click changes nothing unless the round is guessed;
\* when it is, it ends the game if roundNum >= roundsTotal and otherwise
\* advances to round roundNum + 1.
C9_NextAsStated ==
    [][ op' = "nextClick"
        => IF ~hasGuessed
           THEN UNCHANGED <<roundNum, currentIndex, totalScore>>
           ELSE IF roundNum >= roundsTotal
           THEN GameOverShown' /\ roundNum' = 0
           ELSE roundNum' = roundNum + 1 ]_vars

\* C9 amended: a Next click changes nothing unless the round is guessed; when
\* it is, it ends the game if roundNum >= roundsTotal or roundNum >=
\* images.length, and otherwise advances to round roundNum + 1.
C9_NextAmended ==
    [][ op' = "nextClick"
        => IF ~hasGuessed
           THEN UNCHANGED <<roundNum, currentIndex, totalScore>>
           ELSE IF roundNum >= roundsTotal \/ roundNum >= Len(images)
           THEN GameOverShown' /\ roundNum' = 0 /\ UNCHANGED totalScore
           ELSE /\ roundNum' = roundNum + 1
                /\ currentIndex' = roundNum
                /\ ~hasGuessed'
                /\ UNCHANGED totalScore ]_vars

\* C9 witness: Next ended a game of fewer locations than roundsTotal
C9_Witness ==
    /\ op = "nextClick"
    /\ path = "proceedNextRound:endGame"
    /\ played = Len(images)
    /\ played < roundsTotal
    /\ roundNum = 0

\* C10: endGame is only ever entered by a Next click in a guessed round
\* (roundNum >= 1, hasGuessed) in which no round or no location remains;
\* never by startGame, never from a round still awaiting its guess.
C10_GameOverOnlyFromGuessedRound ==
    [][ GameOverShown'
        => /\ op' = "nextClick"
           /\ roundNum >= 1
           /\ hasGuessed
           /\ (roundNum >= roundsTotal \/ roundNum >= Len(images)) ]_vars

\* C10 witness: game over after the guess of round roundsTotal
C10_Witness ==
    /\ GameOverShown
    /\ path = "nextClick:endGame"
    /\ played = roundsTotal

\* C11: between events roundNum is in 0..roundsTotal and never above the
\* number of loaded locations; the roundsTotal + 1 or images.length + 1 of
\* proceedNextRound's increment is reset to 0 by endGame in the same step.
C11_RoundNumInRange ==
    /\ roundNum \in 0..roundsTotal
    /\ roundNum <= Len(images)

(* ---------------------------------------------------------------------- *)
(* computeScore on its own: called at one distance, then at distances up   *)
(* to one kilometre farther, each call keeping the one before (near)       *)
(* ---------------------------------------------------------------------- *)

InScoreDistances(d) == (d % 8 = 0 /\ d \div 8 <= MaxKm) \/ d <= MaxFine

ScoreDistances == {d \in 0..(8 * MaxKm) : InScoreDistances(d)}

InitScore ==
    /\ Constructed
    /\ dataset = Dataset(0)
    /\ nextDisabled
    /\ call \in {[fn |-> "computeScore", done |-> FALSE, arg |-> d,
                  result |-> 0, near |-> d, nearResult |-> 0] :
                     d \in ScoreDistances}

ScoreCall ==
    /\ call.fn = "computeScore"
    /\ ~call.done
    /\ LET points == computeScore(call.arg)
       IN  call' = [call EXCEPT !.done = TRUE, !.result = points,
                                !.nearResult = points]
    /\ UNCHANGED gameVars

ScoreFarther ==
    /\ call.fn = "computeScore"
    /\ call.done
    /\ \E d \in (call.arg + 1)..(call.arg + 8) :
          /\ InScoreDistances(d)
          /\ call' = [call EXCEPT !.arg = d, !.result = computeScore(d),
                                  !.near = call.arg,
                                  !.nearResult = call.result]
    /\ UNCHANGED gameVars

NextScore == ScoreCall \/ ScoreFarther

SpecScore == InitScore /\ [][NextScore]_vars

(* ---------------------------------------------------------------------- *)
(* shuffle on its own: one call on an array, with one sequence of draws    *)
(* ---------------------------------------------------------------------- *)

ShuffleInputs == UNION {[1..n -> 1..MaxRecord] : n \in 0..MaxLen}

InitShuffle ==
    /\ Constructed
    /\ dataset = Dataset(0)
    /\ nextDisabled
    /\ \E arr \in ShuffleInputs : \E rnd \in AllDraws(Len(arr)) :
          call = [fn |-> "shuffle", done |-> FALSE, arr |-> arr, rnd |-> rnd,
                  result |-> <<>>]

ShuffleCall ==
    /\ call.fn = "shuffle"
    /\ ~call.done
    /\ call' = [call EXCEPT !.done = TRUE,
                            !.result = shuffle(call.arr, call.rnd)]
    /\ UNCHANGED gameVars

NextShuffle == ShuffleCall

SpecShuffle == InitShuffle /\ [][NextShuffle]_vars

(* ---------------------------------------------------------------------- *)
(* haversine on its own: one call on two points of the 90-degree grid      *)
(* ---------------------------------------------------------------------- *)

GridPoints ==
    {[lat |-> 90 * i, lng |-> 90 * j] : i \in (0 - 1)..1, j \in (0 - 2)..2}

InitHaversine ==
    /\ Constructed
    /\ dataset = Dataset(0)
    /\ nextDisabled
    /\ \E p1 \in GridPoints : \E p2 \in GridPoints :
          call = [fn |-> "haversine", done |-> FALSE, p1 |-> p1, p2 |-> p2,
                  result |-> 0]

HaversineCall ==
    /\ call.fn = "haversine"
    /\ ~call.done
    /\ call' = [call EXCEPT !.done = TRUE,
                            !.result = haversine(call.p1.lat, call.p1.lng,
                                                 call.p2.lat, call.p2.lng)]
    /\ UNCHANGED gameVars

NextHaversine == HaversineCall

SpecHaversine == InitHaversine /\ [][NextHaversine]_vars

\* C12: the total reported at game over is the sum of the points of the
\* guesses scored in that game, one guess per round presented, counted from
\* 0 at the start of the game: nothing lost, counted twice or carried over.
C12_TotalIsSumOfRoundPoints ==
    GameOverShown => totalScore = awarded /\ guesses = played

\* C12 witness: game over after roundsTotal scored guesses of mixed points
C12_Witness ==
    /\ GameOverShown
    /\ guesses = roundsTotal
    /\ totalScore > 0
    /\ totalScore < roundsTotal * max

\* C14: computeScore(d) is the reference curve evaluated exactly: 5000 for
\* d <= 1 km, otherwise max(0, 5000 * (1 - min(d/20000, 1))) rounded to the
\* nearest integer with halves up; so score(1) = 5000, score(20000) = 0,
\* score(40000) = 0, and the result is an integer in 0..5000. With d in
\* eighths of a km the exact value is (8 * 20000 - min(d, 8 * 20000)) / 32.
C14_ScoreEqualsReference ==
    call.fn = "computeScore" /\ call.done =>
        LET full == 8 * maxDist
            num == full - (IF call.arg <= full THEN call.arg ELSE full)
            den == full \div max
            reference == IF call.arg <= 8 THEN max
                         ELSE (2 * num + den) \div (2 * den)
        IN  /\ call.result = reference
            /\ call.result \in 0..max
            /\ (call.arg = 8 => call.result = max)
            /\ (call.arg = 8 * maxDist => call.result = 0)
            /\ (call.arg = 8 * 2 * maxDist => call.result = 0)

\* C15: computeScore never grows with the distance: a call at a distance up
\* to one kilometre farther than the call before it (on the plateau d <= 1,
\* across its edge, on the slope, at and beyond maxDist) returns at most
\* what that call returned; by transitivity the same holds for any d1 <= d2.
C15_ScoreNonIncreasing ==
    call.fn = "computeScore" /\ call.done /\ call.near <= call.arg =>
        call.nearResult >= call.result

\* C15 witness: a farther call on the slope that returned strictly less
C15_Witness ==
    /\ call.fn = "computeScore"
    /\ call.done
    /\ 8 < call.near
    /\ call.near < call.arg
    /\ call.arg < 8 * maxDist
    /\ call.result < call.nearResult

\* C16: for every input array and every sequence of draws j in 0..i, shuffle
\* returns an array of the same length that holds every record as many times
\* as the input does.
C16_ShuffleIsPermutation ==
    call.fn = "shuffle" /\ call.done =>
        /\ Len(call.result) = Len(call.arr)
        /\ \A v \in 1..MaxRecord :
              Cardinality({i \in DOMAIN call.result : call.result[i] = v})
                  = Cardinality({i \in DOMAIN call.arr : call.arr[i] = v})

\* C16 witness: a shuffle of a longest array, holding a record twice, that
\* returned another order than it was given
C16_Witness ==
    /\ call.fn = "shuffle"
    /\ call.done
    /\ Len(call.arr) = MaxLen
    /\ \E i, j \in DOMAIN call.arr : i # j /\ call.arr[i] = call.arr[j]
    /\ call.result # call.arr

\* C17: haversine of a point and itself is 0, for any coordinate, and the
\* points onMapClick computes from that distance are the full 5000.
C17_ZeroDistanceToItself ==
    call.fn = "haversine" /\ call.done /\ call.p1 = call.p2 =>
        /\ call.result = 0
        /\ computeScore(call.result \div 125) = max

\* C17 witness: the distance of a pole, at a longitude other than 0, to itself
C17_Witness ==
    /\ call.fn = "haversine"
    /\ call.done
    /\ call.p1 = call.p2
    /\ call.p1.lat # 0
    /\ call.p1.lng # 0
    /\ call.result = 0

\* C18: the records presented in the rounds of one game, from its start on,
\* are pairwise distinct (as many different records as rounds presented) and
\* are records of the loaded dataset.
C18_NoLocationTwice ==
    /\ Cardinality(shown) = played
    /\ \A r \in shown : \E k \in DOMAIN dataset : dataset[k] = r

\* C18 witness: a game over after roundsTotal rounds
C18_Witness ==
    /\ GameOverShown
    /\ played = roundsTotal
    /\ Cardinality(shown) = roundsTotal

\* C19 as stated: in every reachable state the Next button is enabled only
\* in a guessed active round (roundNum >= 1 and hasGuessed), and the Start
\* button is disabled whenever a round is active (roundNum >= 1).
C19_ButtonsTrackState ==
    /\ (~nextDisabled => roundNum >= 1 /\ hasGuessed)
    /\ (roundNum >= 1 => startDisabled)

\* C19 amended: once a game has been started, the Next button is enabled
\* only in a guessed active round; the Start button is disabled whenever a
\* round is active; and a round that a Next click presents is never round 1,
\* so Next does not start a round over a finished game.
C19_ButtonsTrackStateOnceStarted ==
    /\ (gameN > 0 /\ ~nextDisabled => roundNum >= 1 /\ hasGuessed)
    /\ (roundNum >= 1 => startDisabled)
    /\ (op = "nextClick" /\ path = "proceedNextRound:round" => roundNum >= 2)

\* C19 witness: game over has left hasGuessed true, Next disabled and Start
\* enabled
C19_Witness ==
    /\ GameOverShown
    /\ hasGuessed
    /\ nextDisabled
    /\ ~startDisabled
    /\ gameN > 0

\* C20: every started game terminates: if the player keeps guessing and
\* pressing Next whenever that is possible, a state with an active round
\* leads to game over, roundNum = 0 with the Start button enabled again.
C20_EveryGameTerminates ==
    (roundNum >= 1) ~> (roundNum = 0 /\ ~startDisabled)

\* C13: whenever a guess can be accepted (roundNum >= 1, hasGuessed false)
\* currentIndex is a valid index of images, so a map click never reads a
\* missing location record, after any sequence of start, guess and Next.
C13_GuessNeverReadsMissingRecord ==
    /\ (roundNum >= 1 /\ ~hasGuessed => currentIndex + 1 \in DOMAIN images)
    /\ ~threw

====
